---- MODULE Spec2Model ----
(***************************************************************************)
(* Komodo Core helpers (bin/core/src/helpers/mod.rs): the credential       *)
(* resolvers git_token / registry_token, the agent-client factory          *)
(* periphery_client and the permission provisioner create_permission,      *)
(* over the ServerConfig entity (client/core/rs/src/entities/server.rs).   *)
(*                                                                         *)
(* Option<T> is modelled as a sequence: <<>> is None, <<x>> is Some(x).    *)
(* anyhow::Result<T> is a record [tag, value, context, cause].             *)
(***************************************************************************)
EXTENDS Integers, Sequences, FiniteSets, TLC

VARIABLES
  git_accounts,      \* db_client().git_accounts: set of rows, unique (domain, username)
  registry_accounts, \* db_client().registry_accounts: set of rows, unique (domain, username)
  permissions,       \* db_client().permissions: rows in insertion order
  core_config,       \* core_config(): [passkey, git_providers, docker_registries]
  server,            \* the ServerConfig of a managed server
  call               \* the last helper call: its arguments and everything it did

vars == <<git_accounts, registry_accounts, permissions, core_config, server, call>>

\* ------------------------------------------------------------------ bounds

MaxProviders == 2   \* providers in one list of the static config
MaxAccounts == 2    \* accounts in one list of the static config, over all its providers
MaxRows == 1        \* rows of an account collection
MaxPermissions == 2 \* rows of the permissions collection

\* --------------------------------------------------------------- universes

\* Names of providers and accounts, in the store, in the static config and as
\* arguments of the resolvers; the empty name is one of them.
Domains == {"", "d1"}
Usernames == {"", "u1"}
\* NoFault is a store that answers; StoreFaults are the causes it fails with.
NoFault == "none"
StoreFaults == {"connection refused"}

None == <<>>
Some(x) == <<x>>

Ok(v) == [tag |-> "Ok", value |-> v, context |-> "", cause |-> ""]
Err(ctx, c) == [tag |-> "Err", value |-> None, context |-> ctx, cause |-> c]

\* Sequences over S of length at most n.
SeqUpTo(S, n) == UNION {[1..k -> S] : k \in 0..n}

\* Iterator::find: the first element of s among the positions whose element
\* satisfies the predicate, as an Option.
Find(s, satisfying) ==
  IF satisfying = {} THEN None
  ELSE Some(s[CHOOSE i \in satisfying : \A j \in satisfying : i <= j])

\* The positions of the providers with the domain, of the accounts with the name.
DomainIs(providers, provider_domain) ==
  {i \in 1..Len(providers) : providers[i].domain = provider_domain}
UsernameIs(accounts, account_username) ==
  {j \in 1..Len(accounts) : accounts[j].username = account_username}

\* ------------------------------------------------- the store and the config

\* A secret is opaque to the helpers; it is named by where it is configured,
\* so that every two configured secrets differ.
DbToken(d, u) == [domain |-> d, username |-> u]
ConfigToken(i, j) == [provider |-> i, account |-> j]

GitAccountRows ==
  {[domain |-> d, username |-> u, token |-> DbToken(d, u), https |-> h] :
     d \in Domains, u \in Usernames, h \in BOOLEAN}

RegistryAccountRows ==
  {[domain |-> d, username |-> u, token |-> DbToken(d, u)] :
     d \in Domains, u \in Usernames}

\* The collections carry a unique index on (domain, username).
UniqueKeys(rows) ==
  \A r1, r2 \in rows :
    (r1.domain = r2.domain /\ r1.username = r2.username) => r1 = r2

Collections(Rows) ==
  {c \in SUBSET Rows : Cardinality(c) <= MaxRows /\ UniqueKeys(c)}

\* The accounts of the provider at position i, from its usernames.
Accounts(i, names) ==
  [j \in 1..Len(names) |-> [username |-> names[j], token |-> ConfigToken(i, j)]]

RECURSIVE TotalAccounts(_)
TotalAccounts(shapes) ==
  IF shapes = <<>> THEN 0
  ELSE Len(Head(shapes).accounts) + TotalAccounts(Tail(shapes))

\* Provider lists: a domain, a transport flag (git only) and account names each.
ProviderShapes ==
  LET One == [domain : Domains, https : BOOLEAN,
              accounts : SeqUpTo(Usernames, MaxAccounts)]
  IN {s \in SeqUpTo(One, MaxProviders) : TotalAccounts(s) <= MaxAccounts}

GitProviderLists ==
  {[i \in 1..Len(s) |->
      [domain |-> s[i].domain, https |-> s[i].https,
       accounts |-> Accounts(i, s[i].accounts)]] : s \in ProviderShapes}

DockerRegistryLists ==
  {[i \in 1..Len(s) |->
      [domain |-> s[i].domain, accounts |-> Accounts(i, s[i].accounts)]] :
     s \in {x \in ProviderShapes : \A i \in 1..Len(x) : x[i].https}}

\* collection.find_one(doc! { "domain": d, "username": u }) on a store that answers.
FindOne(collection, d, u) ==
  LET hits == {r \in collection : r.domain = d /\ r.username = u}
  IN IF hits = {} THEN None ELSE Some(CHOOSE r \in hits : TRUE)

\* A store query as issued, with how the store took it: NoFault or the cause.
Query(coll, d, u, fault) ==
  [collection |-> coll, domain |-> d, username |-> u, outcome |-> fault]

\* What one resolver call does: its result, the calls of on_https_found in
\* order, and the store queries it issued in order.
Did(result, https_found, queries) ==
  [result |-> result, https_found |-> https_found, queries |-> queries]

\* --------------------------------------------------------------- git_token

\* Mutant: the account is searched in every provider of the domain.
static_git_token_any_provider(provider_domain, account_username, q) ==
  LET ps == core_config.git_providers
      found == Find(ps, DomainIs(ps, provider_domain))
      holders == {i \in DomainIs(ps, provider_domain) :
                    UsernameIs(ps[i].accounts, account_username) # {}}
  IN IF found = None THEN Did(Ok(None), <<>>, <<q>>)
     ELSE IF holders = {} THEN Did(Ok(None), <<found[1].https>>, <<q>>)
     ELSE LET holder == Find(ps, holders)[1]
              account == Find(holder.accounts,
                              UsernameIs(holder.accounts, account_username))
          IN Did(Ok(Some(account[1].token)), <<holder.https>>, <<q>>)

\* The fallback to core_config().git_providers, after query q found no row.
static_git_token(provider_domain, account_username, q) ==
  LET found == Find(core_config.git_providers,
                    DomainIs(core_config.git_providers, provider_domain))
  IN IF found = None
     THEN Did(Ok(None), <<>>, <<q>>)
     ELSE
       \* and_then: on_https_found(provider.https), then the account's token
       LET account == Find(found[1].accounts,
                           UsernameIs(found[1].accounts, account_username))
       IN Did(Ok(IF account = None THEN None ELSE Some(account[1].token)),
              <<found[1].https>>, <<q>>)

\* Mutant: the static config is asked first, the store only when it has no token.
git_token_lookup_config_first(provider_domain, account_username, fault) ==
  LET q == Query("git_accounts", provider_domain, account_username, fault)
      static == static_git_token(provider_domain, account_username, q)
      db_provider == FindOne(git_accounts, provider_domain, account_username)
  IN IF fault # NoFault
     THEN Did(Err("failed to query db for git provider accounts", fault), <<>>, <<q>>)
     ELSE IF static.result.value # None \/ db_provider = None THEN static
     ELSE Did(Ok(Some(db_provider[1].token)), <<db_provider[1].https>>, <<q>>)

\* Mutant: a failed query counts as no row, and the static config answers.
git_token_lookup_fall_through(provider_domain, account_username, fault) ==
  LET q == Query("git_accounts", provider_domain, account_username, fault)
      db_provider == IF fault # NoFault THEN None
                     ELSE FindOne(git_accounts, provider_domain, account_username)
  IN IF db_provider # None
     THEN Did(Ok(Some(db_provider[1].token)), <<db_provider[1].https>>, <<q>>)
     ELSE static_git_token(provider_domain, account_username, q)

\* git_token past its guard: the store query, then the static config.
git_token_lookup(provider_domain, account_username, fault) ==
  LET q == Query("git_accounts", provider_domain, account_username, fault) IN
  IF fault # NoFault
  THEN \* .context(..)? returns the error
       Did(Err("failed to query db for git provider accounts", fault), <<>>, <<q>>)
  ELSE
    LET db_provider == FindOne(git_accounts, provider_domain, account_username) IN
    IF db_provider # None
    THEN Did(Ok(Some(db_provider[1].token)), <<db_provider[1].https>>, <<q>>)
    ELSE static_git_token(provider_domain, account_username, q)

\* Mutant: no guard on empty arguments.
git_token_unguarded(provider_domain, account_username, fault) ==
  git_token_lookup(provider_domain, account_username, fault)

git_token(provider_domain, account_username, fault) ==
  IF provider_domain = "" \/ account_username = ""
  THEN Did(Ok(None), <<>>, <<>>)
  ELSE git_token_lookup(provider_domain, account_username, fault)

\* ---------------------------------------------------------- registry_token

registry_token(provider_domain, account_username, fault) ==
  LET q == Query("registry_accounts", provider_domain, account_username, fault) IN
  IF fault # NoFault
  THEN Did(Err("failed to query db for docker registry accounts", fault), <<>>, <<q>>)
  ELSE
    LET provider == FindOne(registry_accounts, provider_domain, account_username) IN
    IF provider # None
    THEN Did(Ok(Some(provider[1].token)), <<>>, <<q>>)
    ELSE
      LET found == Find(core_config.docker_registries,
                        DomainIs(core_config.docker_registries, provider_domain))
          account == IF found = None THEN None
                     ELSE Find(found[1].accounts,
                               UsernameIs(found[1].accounts, account_username))
      IN Did(Ok(IF account = None THEN None ELSE Some(account[1].token)), <<>>, <<q>>)

\* ------------------------------------------------------------ the resolvers

NoCall == [op |-> "none"]

\* No server is looked at.
NoServer == [enabled |-> FALSE]

\* A caller resolves a git credential; the store is up (NoFault) or fails any
\* query with a cause.
GitToken ==
  \E d \in Domains, u \in Usernames, fault \in {NoFault} \cup StoreFaults :
    /\ call = NoCall
    /\ call' = [op |-> "git_token", domain |-> d, username |-> u,
                store |-> fault, did |-> git_token(d, u, fault)]
    /\ UNCHANGED <<git_accounts, registry_accounts, permissions, core_config, server>>

RegistryToken ==
  \E d \in Domains, u \in Usernames, fault \in {NoFault} \cup StoreFaults :
    /\ call = NoCall
    /\ call' = [op |-> "registry_token", domain |-> d, username |-> u,
                store |-> fault, did |-> registry_token(d, u, fault)]
    /\ UNCHANGED <<git_accounts, registry_accounts, permissions, core_config, server>>

\* The caller takes the result; the next call may start.
Return ==
  /\ call # NoCall
  /\ call' = NoCall
  /\ UNCHANGED <<git_accounts, registry_accounts, permissions, core_config, server>>

\* The two resolvers read disjoint parts of the store and of the config: each is
\* run over every value of its own part, the other part being empty.
InitResolvers ==
  /\ \/ /\ git_accounts \in Collections(GitAccountRows)
        /\ registry_accounts = {}
        /\ core_config \in [passkey : {"core"}, git_providers : GitProviderLists,
                            docker_registries : {<<>>}]
     \/ /\ git_accounts = {}
        /\ registry_accounts \in Collections(RegistryAccountRows)
        /\ core_config \in [passkey : {"core"}, git_providers : {<<>>},
                            docker_registries : DockerRegistryLists]
  /\ permissions = <<>>
  /\ server = NoServer
  /\ call = NoCall

NextResolvers == GitToken \/ RegistryToken \/ Return

SpecResolvers == InitResolvers /\ [][NextResolvers]_vars

\* -------------------------------------------------------- periphery_client

\* fn default_timeout_seconds() -> i64
default_timeout_seconds == 3

\* impl Default for ServerConfig; request_headers is the field periphery_client
\* reads, a map from header names to values.
DefaultServerConfig ==
  [address |-> "https://periphery:8120",
   enabled |-> FALSE,
   timeout_seconds |-> default_timeout_seconds,
   passkey |-> "",
   request_headers |-> <<>>]

HeaderMaps ==
  {<<>>,
   [h \in {"CF-Access-Client-Id", "CF-Access-Client-Secret"} |-> "cf"]}

\* The fields of ServerConfig the helpers read. timeout_seconds is an i64.
ServerConfigs ==
  [address : {"https://periphery:8120", "https://10.0.0.2:8120"},
   enabled : BOOLEAN,
   timeout_seconds : {-2, -1, 0, default_timeout_seconds},
   passkey : {"", "server-key"},
   request_headers : HeaderMaps]

CorePasskeys == {"", "core-key"}

\* A u64 as four 16-bit limbs, most significant first.
Limb == 2^16
U64(hi, mh, ml, lo) == <<hi, mh, ml, lo>>

\* `x as u64` of an i64 x with -2^16 <= x < 2^16: x mod 2^64.
as_u64(x) ==
  IF x >= 0 THEN U64(0, 0, 0, x)
  ELSE U64(Limb - 1, Limb - 1, Limb - 1, Limb + x)

\* Duration::from_secs(secs)
Duration_from_secs(secs) == [secs |-> secs, nanos |-> 0]

\* PeripheryClient::new(address, passkey, request_headers, timeout)
PeripheryClient_new(address, passkey, request_headers, timeout) ==
  [address |-> address, passkey |-> passkey,
   request_headers |-> request_headers, timeout |-> timeout]

\* Mutant: the enabled flag is not looked at.
periphery_client_any_server(s) ==
  Ok(PeripheryClient_new(
       s.address,
       IF s.passkey = "" THEN core_config.passkey ELSE s.passkey,
       s.request_headers,
       Duration_from_secs(as_u64(s.timeout_seconds))))

\* Mutant: the server's own passkey is not looked at.
periphery_client_core_passkey(s) ==
  IF ~s.enabled
  THEN Err("server not enabled", "")
  ELSE Ok(PeripheryClient_new(
            s.address, core_config.passkey, s.request_headers,
            Duration_from_secs(as_u64(s.timeout_seconds))))

\* periphery_client(server), on server.config
periphery_client(s) ==
  IF ~s.enabled
  THEN Err("server not enabled", "")
  ELSE Ok(PeripheryClient_new(
            s.address,
            IF s.passkey = "" THEN core_config.passkey ELSE s.passkey,
            s.request_headers,
            Duration_from_secs(as_u64(s.timeout_seconds))))

\* The external write path replaces the server's configuration.
UpdateServer ==
  \E config \in ServerConfigs :
    /\ config # server
    /\ server' = config
    /\ UNCHANGED <<git_accounts, registry_accounts, permissions, core_config, call>>

\* An orchestration action asks for a client of the server as configured now.
PeripheryClient ==
  /\ call' = [op |-> "periphery_client", server |-> server,
              did |-> [result |-> periphery_client(server)]]
  /\ UNCHANGED <<git_accounts, registry_accounts, permissions, core_config, server>>

InitClient ==
  /\ git_accounts = {}
  /\ registry_accounts = {}
  /\ permissions = <<>>
  /\ core_config \in [passkey : CorePasskeys, git_providers : {<<>>},
                      docker_registries : {<<>>}]
  /\ server = DefaultServerConfig
  /\ call = NoCall

NextClient == UpdateServer \/ PeripheryClient

SpecClient == InitClient /\ [][NextClient]_vars

\* ------------------------------------------------------- create_permission

Users ==
  {[id |-> "alice", admin |-> FALSE],
   [id |-> "bob", admin |-> FALSE],
   [id |-> "root", admin |-> TRUE]}

\* ResourceTarget values; the callers' targets are taken in their tagged form.
ResourceTargets == {[type |-> "Server", id |-> "r1"], [type |-> "Stack", id |-> "r1"]}

\* A PermissionLevel with an IndexSet<SpecificPermission>, in insertion order.
Grants ==
  {[level |-> "Read", specific |-> <<>>],
   [level |-> "Write", specific |-> <<"Terminal", "Logs">>]}

\* UserTarget::User(id)
UserTarget_User(id) == [type |-> "User", id |-> id]

\* permissions.insert_one(doc) on a store that takes the write: the row is
\* appended under an id the store assigns.
insert_one(collection, doc) ==
  Append(collection, [doc EXCEPT !.id = Len(collection) + 1])

\* Mutant: a row is written for an admin as well.
create_permission_for_admins(user, target, level, specific, fault) ==
  LET doc == [id |-> 0, user_target |-> UserTarget_User(user.id),
              resource_target |-> target, level |-> level, specific |-> specific]
  IN [writes |-> <<[collection |-> "permissions", doc |-> doc, outcome |-> fault]>>,
      permissions |-> IF fault = NoFault THEN insert_one(permissions, doc)
                      ELSE permissions,
      errors |-> IF fault = NoFault THEN <<>>
                 ELSE <<[message |-> "failed to create permission",
                         target |-> target, cause |-> fault]>>,
      returned |-> "()"]

\* Mutant: a failed insert is handed to the caller as an error, not logged.
create_permission_propagating(user, target, level, specific, fault) ==
  IF user.admin
  THEN [writes |-> <<>>, permissions |-> permissions, errors |-> <<>>,
        returned |-> "()"]
  ELSE
    LET doc == [id |-> 0, user_target |-> UserTarget_User(user.id),
                resource_target |-> target, level |-> level, specific |-> specific]
    IN [writes |-> <<[collection |-> "permissions", doc |-> doc, outcome |-> fault]>>,
        permissions |-> IF fault = NoFault THEN insert_one(permissions, doc)
                        ELSE permissions,
        errors |-> <<>>,
        returned |-> IF fault = NoFault THEN "()" ELSE "Err"]

\* What one call does: the store writes it issued, the permissions collection
\* after it, the lines it logged at error level, and what it returned.
create_permission(user, target, level, specific, fault) ==
  IF user.admin
  THEN [writes |-> <<>>, permissions |-> permissions, errors |-> <<>>,
        returned |-> "()"]
  ELSE
    LET doc == [id |-> 0,   \* Default::default()
                user_target |-> UserTarget_User(user.id),
                resource_target |-> target, level |-> level, specific |-> specific]
    IN [writes |-> <<[collection |-> "permissions", doc |-> doc, outcome |-> fault]>>,
        permissions |-> IF fault = NoFault THEN insert_one(permissions, doc)
                        ELSE permissions,
        errors |-> IF fault = NoFault THEN <<>>
                   ELSE <<[message |-> "failed to create permission",
                           target |-> target, cause |-> fault]>>,
        returned |-> "()"]

CreatePermission ==
  \E user \in Users, target \in ResourceTargets, grant \in Grants,
     fault \in {NoFault} \cup StoreFaults :
    LET level == grant.level
        specific == grant.specific
        did == create_permission(user, target, level, specific, fault) IN
    /\ Len(did.permissions) <= MaxPermissions
    /\ permissions' = did.permissions
    /\ call' = [op |-> "create_permission", user |-> user, target |-> target,
                level |-> level, specific |-> specific, store |-> fault,
                did |-> [writes |-> did.writes, errors |-> did.errors,
                         returned |-> did.returned]]
    /\ UNCHANGED <<git_accounts, registry_accounts, core_config, server>>

InitPermissions ==
  /\ git_accounts = {}
  /\ registry_accounts = {}
  /\ permissions = <<>>
  /\ core_config = [passkey |-> "", git_providers |-> <<>>, docker_registries |-> <<>>]
  /\ server = NoServer
  /\ call = NoCall

SpecPermissions == InitPermissions /\ [][CreatePermission]_vars

\* ------------------------------------------------- claims on the resolvers

\* A git_token call with both arguments non-empty, answered by the store.
GitLookupAnswered ==
  /\ call.op = "git_token"
  /\ call.domain # "" /\ call.username # ""
  /\ call.store = NoFault

\* The rows of git_accounts the call's filter matches.
GitRowsOfCall ==
  {row \in git_accounts : row.domain = call.domain /\ row.username = call.username}

\* Positions of the static git providers with the call's domain.
GitProvidersOfCall ==
  {i \in 1..Len(core_config.git_providers) :
     core_config.git_providers[i].domain = call.domain}

\* Positions of the accounts of static git provider i with the call's username.
GitAccountsOfCall(i) ==
  {j \in 1..Len(core_config.git_providers[i].accounts) :
     core_config.git_providers[i].accounts[j].username = call.username}

Least(S) == CHOOSE x \in S : \A y \in S : x <= y

\* C1 (store-wins): when git_accounts holds a row for the non-empty (d, u) and
\* the store answers, git_token(d, u, sink) returns Some(row.token) and the sink
\* was called exactly once, with row.https, whatever the static config holds.
C1_StoreWins ==
  GitLookupAnswered =>
    \A row \in GitRowsOfCall :
      /\ call.did.result = Ok(Some(row.token))
      /\ call.did.https_found = <<row.https>>

\* C1 witness: the row won against a static provider of the same domain that
\* holds the same account and carries the other https flag.
C1_Witness ==
  /\ GitLookupAnswered
  /\ \E row \in GitRowsOfCall :
       /\ call.did.result = Ok(Some(row.token))
       /\ \E i \in GitProvidersOfCall :
            /\ GitAccountsOfCall(i) # {}
            /\ core_config.git_providers[i].https # row.https

\* C2 as stated: with no row for (d, u) and the store answering, a static
\* provider of domain d holding account u makes the result Some(its token) with
\* the sink called once with that provider's https; a provider of domain d
\* without any holder makes the result None with the sink called once with a
\* provider's https. For every provider list, duplicates of a domain included.
C2_AnyHolderWins ==
  (GitLookupAnswered /\ GitRowsOfCall = {}) =>
    LET ps == core_config.git_providers
        holders == {h \in GitProvidersOfCall \X (1..MaxAccounts) :
                      h[2] \in GitAccountsOfCall(h[1])}
    IN /\ holders # {} =>
            \E h \in holders :
              /\ call.did.result = Ok(Some(ps[h[1]].accounts[h[2]].token))
              /\ call.did.https_found = <<ps[h[1]].https>>
       /\ (holders = {} /\ GitProvidersOfCall # {}) =>
            /\ call.did.result = Ok(None)
            /\ \E i \in GitProvidersOfCall : call.did.https_found = <<ps[i].https>>

\* C2 amended (static fallback, first match): with no row for (d, u) and the
\* store answering, the first static provider of domain d decides: the sink is
\* called exactly once, with its https, and the result is the token of its first
\* account named u, or None when it has none; with no provider of domain d the
\* result is None and the sink is not called.
C2_FirstProviderWins ==
  (GitLookupAnswered /\ GitRowsOfCall = {}) =>
    IF GitProvidersOfCall = {}
    THEN call.did.result = Ok(None) /\ call.did.https_found = <<>>
    ELSE LET i == Least(GitProvidersOfCall)
             p == core_config.git_providers[i]
         IN /\ call.did.https_found = <<p.https>>
            /\ call.did.result =
                 Ok(IF GitAccountsOfCall(i) = {} THEN None
                    ELSE Some(p.accounts[Least(GitAccountsOfCall(i))].token))

\* C2 witness: two static providers of the call's domain with different https
\* flags both hold the account, and the first one's token was returned.
C2_Witness ==
  /\ GitLookupAnswered /\ GitRowsOfCall = {}
  /\ \E i, k \in GitProvidersOfCall :
       /\ i < k
       /\ GitAccountsOfCall(i) # {} /\ GitAccountsOfCall(k) # {}
       /\ core_config.git_providers[i].https # core_config.git_providers[k].https
       /\ call.did.result = Ok(Some(core_config.git_providers[i].accounts[1].token))

ContextOf(op) ==
  IF op = "git_token" THEN "failed to query db for git provider accounts"
  ELSE "failed to query db for docker registry accounts"

\* C3 (store-failure propagation): when the store query of git_token or
\* registry_token fails, the call returns the error with the store's cause,
\* returns no token of the static config, and the https sink is not called.
C3_StoreFailurePropagates ==
  call.op \in {"git_token", "registry_token"} =>
    \A k \in 1..Len(call.did.queries) :
      call.did.queries[k].outcome # NoFault =>
        /\ call.did.result = Err(ContextOf(call.op), call.did.queries[k].outcome)
        /\ call.did.https_found = <<>>

\* C3 witness: a git_token query failed while the static config held the
\* provider and the account asked for.
C3_Witness ==
  /\ call.op = "git_token"
  /\ call.did.queries # <<>>
  /\ call.did.queries[1].outcome \in StoreFaults
  /\ call.did.result.tag = "Err"
  /\ \E i \in GitProvidersOfCall : GitAccountsOfCall(i) # {}

\* C8 (registry empty-input short-circuit): registry_token with an empty domain
\* or an empty username returns Ok(None) and issues no store query.
C8_RegistryShortCircuit ==
  (call.op = "registry_token" /\ (call.domain = "" \/ call.username = "")) =>
    /\ call.did.queries = <<>>
    /\ call.did.result = Ok(None)

\* C9 (git empty-input short-circuit): git_token with an empty domain or an
\* empty username returns Ok(None), issues no store query and does not call the
\* sink, whatever the store and the static config hold, store down or up.
C9_GitShortCircuit ==
  (call.op = "git_token" /\ (call.domain = "" \/ call.username = "")) =>
    /\ call.did.result = Ok(None)
    /\ call.did.queries = <<>>
    /\ call.did.https_found = <<>>

\* C9 witness: an empty domain was asked for while the store was down, held a
\* row under the empty domain, and the static config held that account too.
C9_Witness ==
  /\ call.op = "git_token"
  /\ call.domain = "" /\ call.username # ""
  /\ call.store \in StoreFaults
  /\ GitRowsOfCall # {}
  /\ \E i \in GitProvidersOfCall : GitAccountsOfCall(i) # {}
  /\ call.did.result = Ok(None)

\* ---------------------------------------- claims on the agent-client factory

\* The last call was periphery_client and it returned a client.
ClientReturned ==
  call.op = "periphery_client" /\ call.did.result.tag = "Ok"

\* C4 (disabled-server refusal): periphery_client on a server whose enabled flag
\* is false returns the "server not enabled" error and no client, whatever its
\* other fields; every client returned, across configuration changes, was made
\* from a configuration that was enabled when the call was made.
C4_DisabledServerRefused ==
  call.op = "periphery_client" =>
    /\ ~call.server.enabled => call.did.result = Err("server not enabled", "")
    /\ call.did.result.tag = "Ok" => call.server.enabled

\* C4 witness: a disabled server with its own passkey, headers, another address
\* and a negative timeout was refused.
C4_Witness ==
  /\ call.op = "periphery_client"
  /\ ~call.server.enabled
  /\ call.server.passkey # "" /\ call.server.request_headers # <<>>
  /\ call.server.address # DefaultServerConfig.address
  /\ call.server.timeout_seconds < 0
  /\ call.did.result.tag = "Err"

\* C7 (timeout coercion): the client of an enabled server has a request timeout
\* of timeout_seconds seconds coerced to a non-negative value: a negative
\* timeout_seconds does not become the duration of its value mod 2^64.
C7_TimeoutCoerced ==
  ClientReturned =>
    LET t == call.server.timeout_seconds
    IN call.did.result.value.timeout =
         Duration_from_secs(U64(0, 0, 0, IF t < 0 THEN 0 ELSE t))

\* C10 (passkey inheritance): the client of an enabled server carries the
\* server's passkey when that is non-empty and the core config's passkey
\* otherwise; its address and its request headers are the server's, unchanged.
C10_PasskeyInherited ==
  ClientReturned =>
    LET s == call.server
        client == call.did.result.value
    IN /\ s.passkey # "" => client.passkey = s.passkey
       /\ s.passkey = "" => client.passkey = core_config.passkey
       /\ client.address = s.address
       /\ client.request_headers = s.request_headers

\* C10 witness: a server without a passkey of its own, with request headers, got
\* a client carrying the non-empty core passkey.
C10_Witness ==
  /\ ClientReturned
  /\ call.server.passkey = "" /\ core_config.passkey # ""
  /\ call.server.request_headers # <<>>
  /\ call.did.result.value.passkey = core_config.passkey

\* ------------------------------------- claims on the permission provisioner

\* C5 (admin no-op and single insert): a create_permission call for an admin
\* issues no store write; for any other user it issues exactly one write, an
\* insert into permissions of a row with user_target User(user.id), the caller's
\* target, level and specific; the account collections are not written and the
\* rows already in permissions stay as they are.
C5_AdminNoOpSingleInsert ==
  [][call'.op = "create_permission" =>
       /\ git_accounts' = git_accounts /\ registry_accounts' = registry_accounts
       /\ Len(permissions') >= Len(permissions)
       /\ \A k \in 1..Len(permissions) : permissions'[k] = permissions[k]
       /\ call'.user.admin =>
            /\ call'.did.writes = <<>>
            /\ permissions' = permissions
       /\ ~call'.user.admin =>
            /\ Len(call'.did.writes) = 1
            /\ Len(permissions') <= Len(permissions) + 1
            /\ LET w == call'.did.writes[1]
               IN /\ w.collection = "permissions"
                  /\ w.doc.user_target = UserTarget_User(call'.user.id)
                  /\ w.doc.resource_target = call'.target
                  /\ w.doc.level = call'.level
                  /\ w.doc.specific = call'.specific
                  /\ w.outcome = NoFault =>
                       /\ Len(permissions') = Len(permissions) + 1
                       /\ [permissions'[Len(permissions')] EXCEPT !.id = 0] = w.doc
  ]_vars

\* C5 witness: an admin's call left two rows of permissions, inserted by calls of
\* other users, as they were.
C5_Witness ==
  /\ call.op = "create_permission"
  /\ call.user.admin
  /\ call.did.writes = <<>>
  /\ Len(permissions) = 2
  /\ permissions[1].user_target # permissions[2].user_target

\* C6 (permission uniqueness): permissions holds at most one row for each pair
\* of user_target and resource_target.
C6_PermissionUnique ==
  \A i, j \in 1..Len(permissions) :
    (/\ permissions[i].user_target = permissions[j].user_target
     /\ permissions[i].resource_target = permissions[j].resource_target) => i = j

\* C11 (swallowed permission-write failure): when the insert of a call for a
\* user who is no admin fails, create_permission logs the failure, with the
\* target and the store's cause, and returns () to its caller; permissions has
\* no row for the grant and is as it was before the call.
C11_WriteFailureSwallowed ==
  [][(/\ call'.op = "create_permission"
      /\ ~call'.user.admin
      /\ call'.store # NoFault) =>
       /\ call'.did.returned = "()"
       /\ call'.did.errors = <<[message |-> "failed to create permission",
                                target |-> call'.target,
                                cause |-> call'.store]>>
       /\ Len(call'.did.writes) = 1
       /\ call'.did.writes[1].outcome = call'.store
       /\ permissions' = permissions
  ]_vars

\* C11 witness: the insert for a user who is no admin failed, the failure was
\* logged and () returned, while permissions held a row of an earlier grant and
\* none for this user and target.
C11_Witness ==
  /\ call.op = "create_permission"
  /\ ~call.user.admin
  /\ call.store \in StoreFaults
  /\ call.did.errors # <<>>
  /\ call.did.returned = "()"
  /\ permissions # <<>>
  /\ \A k \in 1..Len(permissions) :
       ~(/\ permissions[k].user_target = UserTarget_User(call.user.id)
         /\ permissions[k].resource_target = call.target)

====
